---- MODULE Spec2Model ----
(***************************************************************************)
(* chess-analytics: the PGN parser and classifiers of                      *)
(* analyze_chess_games.py and the download loop of fetch_chess_games.py.   *)
(*                                                                         *)
(* Text is modelled as a sequence of one-character strings, so that        *)
(* strip(), lower(), startswith(), "in" and the regular expressions are    *)
(* computed character by character.  Python's None is the value None.      *)
(***************************************************************************)
EXTENDS Integers, Sequences, FiniteSets, TLC

VARIABLES
    pc,              \* position in the function or loop being run
    f,               \* parse_pgn: the lines of the opened file
    lineno,          \* parse_pgn: number of lines already consumed by "for line in f"
    headers,         \* parse_pgn / main: tag name -> tag value
    moves_text,      \* parse_pgn: the movetext buffer
    in_moves,        \* parse_pgn: the movetext phase has started
    move_count,      \* parse_pgn result / classifier argument
    folder,          \* main: basename of the directory of the file
    username,        \* main: args.username
    eco_code,        \* get_opening_name argument
    termination,     \* classify_termination argument
    ColorPlayed,     \* main: game["ColorPlayed"]
    RatingDiff,      \* main: game["RatingDiff"]
    GameLength,      \* main: game["GameLength"]
    OpeningName,     \* main: game["OpeningName"]
    LossQuality,     \* main: game["LossQuality"]
    TerminationType, \* main: game["TerminationType"]
    archives,        \* fetch main: number of archive urls returned by get_archives
    target_count,    \* fetch main: args.count
    count,           \* fetch main: games saved so far
    visited,         \* fetch main: archive indices fetched so far, in order
    games,           \* fetch main: the sorted game list of the current archive
    game_pos,        \* fetch main: games of the current archive already iterated
    written          \* fetch main: the games whose pgn has been written, in order

vars == <<pc, f, lineno, headers, moves_text, in_moves, move_count, folder,
          username, eco_code, termination, ColorPlayed, RatingDiff, GameLength,
          OpeningName, LossQuality, TerminationType, archives, target_count,
          count, visited, games, game_pos, written>>

parseVars == <<f, lineno, headers, moves_text, in_moves>>
inputVars == <<folder, username, eco_code, termination>>
gameVars  == <<ColorPlayed, RatingDiff, GameLength, OpeningName, LossQuality,
               TerminationType>>
fetchVars == <<archives, target_count, count, visited, games, game_pos, written>>

----------------------------------------------------------------------------
(* Values *)

\* Python's None; no text equals it, since every character is one character long.
None == <<"<None>">>

\* A field of the game record that has not been computed yet.
Unset == "<unset>"

\* The empty dict.
EmptyDict == [k \in {} |-> <<>>]

\* The parts of the state a specification does not use.
ParseIdle ==
    /\ f = <<>>
    /\ lineno = 0
    /\ headers = EmptyDict
    /\ moves_text = <<>>
    /\ in_moves = FALSE

InputIdle ==
    /\ folder = ""
    /\ username = <<>>
    /\ eco_code = None
    /\ termination = None

GameIdle ==
    /\ ColorPlayed = Unset
    /\ RatingDiff = 0
    /\ GameLength = Unset
    /\ OpeningName = Unset
    /\ LossQuality = Unset
    /\ TerminationType = Unset

FetchIdle ==
    /\ archives = 0
    /\ target_count = 0
    /\ count = 0
    /\ visited = <<>>
    /\ games = <<>>
    /\ game_pos = 0
    /\ written = <<>>

----------------------------------------------------------------------------
(* Bounds *)

\* Largest move count given to the classifiers.
MaxMoveCount == 45

\* The classifiers are also given the negative move counts down to -MaxNegative.
MaxNegative == 3

----------------------------------------------------------------------------
(* Text: str methods and the character classes of the regular expressions *)

UpperLetters == <<"A", "B", "C", "D", "E", "F", "G", "H", "I", "J", "K", "L", "M", "N", "O", "P", "Q", "R", "S", "T", "U", "V", "W", "X", "Y", "Z">>
LowerLetters == <<"a", "b", "c", "d", "e", "f", "g", "h", "i", "j", "k", "l", "m", "n", "o", "p", "q", "r", "s", "t", "u", "v", "w", "x", "y", "z">>
Digits       == <<"0", "1", "2", "3", "4", "5", "6", "7", "8", "9">>

Range(s) == {s[i] : i \in 1..Len(s)}

DigitCharacters == Range(Digits)

WordCharacters ==
    Range(UpperLetters) \cup Range(LowerLetters) \cup Range(Digits) \cup {"_"}

UpperCharacters == Range(UpperLetters)

\* \d
IsDigit(c) == c \in DigitCharacters

\* \w
IsWord(c) == c \in WordCharacters

\* \s, and the characters str.strip() removes
IsSpace(c) == c \in {" ", "\t"}

\* int(c) for one digit
DigitValue(c) == (CHOOSE i \in 1..10 : Digits[i] = c) - 1

LowerChar(c) ==
    IF c \in UpperCharacters
    THEN LowerLetters[CHOOSE i \in 1..26 : UpperLetters[i] = c]
    ELSE c

\* str.lower()
Lower(s) == [i \in 1..Len(s) |-> LowerChar(s[i])]

\* s[:n]
Prefix(s, n) == SubSeq(s, 1, IF n < Len(s) THEN n ELSE Len(s))

\* s.startswith(p)
StartsWith(s, p) == Len(p) <= Len(s) /\ SubSeq(s, 1, Len(p)) = p

\* s.endswith(p)
EndsWith(s, p) == Len(p) <= Len(s) /\ SubSeq(s, Len(s) - Len(p) + 1, Len(s)) = p

\* sub in s
Contains(sub, s) ==
    \E i \in 1..(Len(s) - Len(sub) + 1) : SubSeq(s, i, i + Len(sub) - 1) = sub

RECURSIVE LStrip(_)
LStrip(s) == IF s # <<>> /\ IsSpace(Head(s)) THEN LStrip(Tail(s)) ELSE s

RECURSIVE RStrip(_)
RStrip(s) ==
    IF s # <<>> /\ IsSpace(s[Len(s)]) THEN RStrip(SubSeq(s, 1, Len(s) - 1)) ELSE s

\* str.strip()
Strip(s) == RStrip(LStrip(s))

\* All sequences over S of length at most n.
SeqUpTo(S, n) == UNION {[1..k -> S] : k \in 0..n}

\* " ".join(ws)
RECURSIVE Join(_)
Join(ws) ==
    IF ws = <<>> THEN <<>>
    ELSE IF Len(ws) = 1 THEN ws[1]
    ELSE ws[1] \o <<" ">> \o Join(Tail(ws))

----------------------------------------------------------------------------
(* classify_game_length, classify_loss_quality *)

\* The chain with <= 20 for < 20.
classify_game_length_le20(mc) ==
    IF mc <= 20 THEN "Quick"
    ELSE IF mc <= 40 THEN "Medium"
    ELSE "Long"

classify_game_length(mc) ==
    IF mc < 20 THEN "Quick"
    ELSE IF mc <= 40 THEN "Medium"
    ELSE "Long"

\* The chain with <= 15 for < 15.
classify_loss_quality_le15(fold, mc) ==
    IF fold # "loss" THEN "N/A"
    ELSE IF mc <= 15 THEN "Quick Loss"
    ELSE IF mc < 30 THEN "Standard Loss"
    ELSE "Well-Fought Loss"

classify_loss_quality(fold, mc) ==
    IF fold # "loss" THEN "N/A"
    ELSE IF mc < 15 THEN "Quick Loss"
    ELSE IF mc < 30 THEN "Standard Loss"
    ELSE "Well-Fought Loss"

\* Directory names: the three the downloader creates, and others a user may have.
Folders == {"win", "loss", "draw", "Loss", "LOSS", "losses", "chess_games", ""}

ClassifyInit ==
    /\ pc = "length"
    /\ move_count \in (0 - MaxNegative)..MaxMoveCount
    /\ folder \in Folders
    /\ username = <<>> /\ eco_code = None /\ termination = None
    /\ ParseIdle /\ GameIdle /\ FetchIdle

\* main: "GameLength": classify_game_length(move_count)
ClassifyLength ==
    /\ pc = "length"
    /\ GameLength' = classify_game_length(move_count)
    /\ pc' = "loss"
    /\ UNCHANGED <<parseVars, move_count, inputVars, fetchVars, ColorPlayed,
                   RatingDiff, OpeningName, LossQuality, TerminationType>>

\* main: "LossQuality": classify_loss_quality(folder, move_count)
ClassifyLoss ==
    /\ pc = "loss"
    /\ LossQuality' = classify_loss_quality(folder, move_count)
    /\ pc' = "done"
    /\ UNCHANGED <<parseVars, move_count, inputVars, fetchVars, ColorPlayed,
                   RatingDiff, OpeningName, GameLength, TerminationType>>

ClassifyNext == ClassifyLength \/ ClassifyLoss

SpecClassify == ClassifyInit /\ [][ClassifyNext]_vars

\* C8: classify_game_length is total over the integers and returns exactly one
\* bucket: "Quick" below 20 (every negative value included), "Medium" from 20 to
\* 40 inclusive, "Long" above 40; 19, 20, 40, 41 give Quick, Medium, Medium, Long.
C8_GameLength ==
    pc # "length" =>
        /\ GameLength \in {"Quick", "Medium", "Long"}
        /\ (GameLength = "Quick") <=> (move_count < 20)
        /\ (GameLength = "Medium") <=> (20 <= move_count /\ move_count <= 40)
        /\ (GameLength = "Long") <=> (move_count > 40)
        /\ (move_count = 19 => GameLength = "Quick")
        /\ (move_count = 20 => GameLength = "Medium")
        /\ (move_count = 40 => GameLength = "Medium")
        /\ (move_count = 41 => GameLength = "Long")

C8_Witness ==
    pc = "done" /\ move_count = 41 /\ GameLength = "Long"

\* C9: the loss quality is "N/A" if and only if the folder is not exactly "loss"
\* (case-sensitive); for "loss" it is "Quick Loss" below 15, "Standard Loss" from
\* 15 to 29, "Well-Fought Loss" from 30; 14, 15, 29, 30 give Quick, Standard,
\* Standard, Well-Fought.
C9_LossQuality ==
    pc = "done" =>
        /\ (LossQuality = "N/A") <=> (folder # "loss")
        /\ folder = "loss" =>
            /\ (LossQuality = "Quick Loss") <=> (move_count < 15)
            /\ (LossQuality = "Standard Loss") <=> (15 <= move_count /\ move_count < 30)
            /\ (LossQuality = "Well-Fought Loss") <=> (move_count >= 30)
            /\ (move_count = 14 => LossQuality = "Quick Loss")
            /\ (move_count = 15 => LossQuality = "Standard Loss")
            /\ (move_count = 29 => LossQuality = "Standard Loss")
            /\ (move_count = 30 => LossQuality = "Well-Fought Loss")

C9_Witness ==
    pc = "done" /\ folder = "loss" /\ move_count = 30
        /\ LossQuality = "Well-Fought Loss"

----------------------------------------------------------------------------
(* classify_termination *)

\* The if/elif chain: keyword, category, in the order tested.
TerminationKeywords == <<
    <<<<"c", "h", "e", "c", "k", "m", "a", "t", "e">>,    "Checkmate">>,
    <<<<"r", "e", "s", "i", "g", "n", "a", "t", "i", "o", "n">>,  "Resignation">>,
    <<<<"t", "i", "m", "e", "o", "u", "t">>,      "Timeout">>,
    <<<<"a", "b", "a", "n", "d", "o", "n", "e", "d">>,    "Abandoned">>,
    <<<<"a", "g", "r", "e", "e", "m", "e", "n", "t">>,    "Draw by Agreement">>,
    <<<<"r", "e", "p", "e", "t", "i", "t", "i", "o", "n">>,   "Draw by Repetition">>,
    <<<<"s", "t", "a", "l", "e", "m", "a", "t", "e">>,    "Stalemate">>,
    <<<<"i", "n", "s", "u", "f", "f", "i", "c", "i", "e", "n", "t">>, "Insufficient Material">> >>

RECURSIVE FirstKeyword(_, _)
FirstKeyword(text, i) ==
    IF i > Len(TerminationKeywords) THEN "Other"
    ELSE IF Contains(TerminationKeywords[i][1], text) THEN TerminationKeywords[i][2]
    ELSE FirstKeyword(text, i + 1)

\* The chain tested against the text as given, not lower-cased.
classify_termination_no_lower(t) ==
    IF t = None \/ t = <<>> THEN "Unknown"
    ELSE FirstKeyword(t, 1)

classify_termination(t) ==
    IF t = None \/ t = <<>> THEN "Unknown"
    ELSE LET term_lower == Lower(t) IN FirstKeyword(term_lower, 1)

\* Longest termination text, in words, besides the two quoted ones.
MaxWords == 2

TerminationWords == {
    <<"G", "a", "m", "e">>, <<"d", "r", "a", "w", "n">>, <<"b", "y">>, <<"r", "e", "p", "e", "t", "i", "t", "i", "o", "n">>, <<"W", "h", "i", "t", "e">>, <<"r", "e", "s", "i", "g", "n", "e", "d">>, <<"w", "o", "n">>,
    <<"r", "e", "s", "i", "g", "n", "a", "t", "i", "o", "n">>, <<"C", "h", "e", "c", "k", "m", "a", "t", "e">>, <<"c", "h", "e", "c", "k", "m", "a", "t", "e", "d">>, <<"T", "I", "M", "E", "O", "U", "T">>, <<"t", "i", "m", "e">>, <<"o", "n">>,
    <<"a", "b", "a", "n", "d", "o", "n", "e", "d">>, <<"A", "g", "r", "e", "e", "m", "e", "n", "t">>, <<"s", "t", "a", "l", "e", "m", "a", "t", "e">>, <<"I", "n", "s", "u", "f", "f", "i", "c", "i", "e", "n", "t">>, <<"m", "a", "t", "e", "r", "i", "a", "l">> }

GameDrawnByRepetition == <<"G", "a", "m", "e", " ", "d", "r", "a", "w", "n", " ", "b", "y", " ", "r", "e", "p", "e", "t", "i", "t", "i", "o", "n">>
WhiteResignedTheMatch == <<"W", "h", "i", "t", "e", " ", "r", "e", "s", "i", "g", "n", "e", "d", " ", "t", "h", "e", " ", "m", "a", "t", "c", "h">>

Terminations ==
    {None, GameDrawnByRepetition, WhiteResignedTheMatch}
        \cup {Join(ws) : ws \in SeqUpTo(TerminationWords, MaxWords)}

TerminationInit ==
    /\ pc = "call"
    /\ termination \in Terminations
    /\ folder = "" /\ username = <<>> /\ eco_code = None
    /\ move_count = 0
    /\ ParseIdle /\ GameIdle /\ FetchIdle

\* main: "TerminationType": classify_termination(headers.get("Termination"))
ClassifyTermination ==
    /\ pc = "call"
    /\ TerminationType' = classify_termination(termination)
    /\ pc' = "done"
    /\ UNCHANGED <<parseVars, move_count, inputVars, fetchVars, ColorPlayed,
                   RatingDiff, OpeningName, GameLength, LossQuality>>

TerminationNext == ClassifyTermination

SpecTermination == TerminationInit /\ [][TerminationNext]_vars

\* The keyword occurs in the text at some offset, letter case ignored.
OccursIgnoringCase(kw, text) ==
    \E off \in 0..(Len(text) - Len(kw)) :
        \A k \in 1..Len(kw) : LowerChar(text[off + k]) = kw[k]

\* The category is that of the first keyword, in the order tested, that occurs.
FirstMatchWins(text, cat) ==
    /\ \A i \in 1..Len(TerminationKeywords) :
          (cat = TerminationKeywords[i][2]) <=>
              /\ OccursIgnoringCase(TerminationKeywords[i][1], text)
              /\ \A j \in 1..(i - 1) :
                    ~OccursIgnoringCase(TerminationKeywords[j][1], text)
    /\ (cat = "Other") <=>
          \A i \in 1..Len(TerminationKeywords) :
              ~OccursIgnoringCase(TerminationKeywords[i][1], text)

\* C1 (as stated): case-insensitive substring matching classifies "Game drawn by
\* repetition" as "Draw by Repetition", "White resigned the match" as
\* "Resignation", and an empty or absent termination as "Unknown".
C1_Original ==
    pc = "done" =>
        /\ (termination = GameDrawnByRepetition => TerminationType = "Draw by Repetition")
        /\ (termination = WhiteResignedTheMatch => TerminationType = "Resignation")
        /\ (termination \in {None, <<>>} => TerminationType = "Unknown")

\* C1 (amended): an empty or absent termination is "Unknown"; any other text gets
\* the category of the first keyword, in the order tested, that it contains with
\* letter case ignored, and "Other" when it contains none; so "Game drawn by
\* repetition" is "Draw by Repetition" and "White resigned the match", which
\* does not contain "resignation", is "Other".
C1_Termination ==
    pc = "done" =>
        /\ (termination \in {None, <<>>} <=> TerminationType = "Unknown")
        /\ (termination \notin {None, <<>>} =>
                FirstMatchWins(termination, TerminationType))
        /\ (termination = GameDrawnByRepetition => TerminationType = "Draw by Repetition")
        /\ (termination = WhiteResignedTheMatch => TerminationType = "Other")

C1_Witness ==
    pc = "done" /\ termination = WhiteResignedTheMatch /\ TerminationType = "Other"

----------------------------------------------------------------------------
(* ECO_OPENINGS, get_opening_name *)

\* The dict literal, as its (key, value) pairs in insertion order: the order
\* ECO_OPENINGS.items() iterates in.
ECO_OPENINGS == <<
    <<<<"A", "0", "0">>, "Uncommon Opening">>,
    <<<<"A", "0", "1">>, "Nimzo-Larsen Attack">>,
    <<<<"A", "0", "2">>, "Bird's Opening">>,
    <<<<"A", "0", "4">>, "Reti Opening">>,
    <<<<"A", "1", "0">>, "English Opening">>,
    <<<<"A", "2", "0">>, "English Opening">>,
    <<<<"A", "2", "8">>, "English Opening: Four Knights">>,
    <<<<"A", "4", "0">>, "Queen's Pawn Game">>,
    <<<<"A", "4", "5">>, "Trompowsky Attack">>,
    <<<<"A", "4", "6">>, "Indian Game">>,
    <<<<"A", "4", "8">>, "London System">>,
    <<<<"B", "0", "0">>, "Uncommon King's Pawn Opening">>,
    <<<<"B", "0", "1">>, "Scandinavian Defense">>,
    <<<<"B", "0", "2">>, "Alekhine's Defense">>,
    <<<<"B", "0", "7">>, "Pirc Defense">>,
    <<<<"B", "1", "0">>, "Caro-Kann Defense">>,
    <<<<"B", "1", "2">>, "Caro-Kann Defense">>,
    <<<<"B", "2", "0">>, "Sicilian Defense">>,
    <<<<"B", "2", "1">>, "Sicilian: Smith-Morra Gambit">>,
    <<<<"B", "2", "2">>, "Sicilian: Alapin">>,
    <<<<"B", "2", "7">>, "Sicilian Defense">>,
    <<<<"B", "3", "0">>, "Sicilian Defense">>,
    <<<<"B", "4", "0">>, "Sicilian Defense">>,
    <<<<"B", "4", "4">>, "Sicilian: Taimanov">>,
    <<<<"B", "5", "0">>, "Sicilian Defense">>,
    <<<<"B", "9", "0">>, "Sicilian: Najdorf">>,
    <<<<"C", "0", "0">>, "French Defense">>,
    <<<<"C", "0", "2">>, "French: Advance Variation">>,
    <<<<"C", "2", "0">>, "King's Pawn Game">>,
    <<<<"C", "2", "1">>, "Center Game">>,
    <<<<"C", "2", "3">>, "Bishop's Opening">>,
    <<<<"C", "2", "5">>, "Vienna Game">>,
    <<<<"C", "2", "8">>, "Vienna Game">>,
    <<<<"C", "4", "0">>, "King's Knight Opening">>,
    <<<<"C", "4", "2">>, "Petrov's Defense">>,
    <<<<"C", "4", "4">>, "Scotch Game">>,
    <<<<"C", "4", "5">>, "Scotch Game">>,
    <<<<"C", "4", "6">>, "Three Knights Game">>,
    <<<<"C", "4", "7">>, "Four Knights Game">>,
    <<<<"C", "5", "0">>, "Italian Game">>,
    <<<<"C", "5", "5">>, "Italian Game: Two Knights">>,
    <<<<"C", "6", "0">>, "Ruy Lopez">>,
    <<<<"C", "6", "5">>, "Ruy Lopez: Berlin Defense">>,
    <<<<"D", "0", "0">>, "Queen's Pawn Game">>,
    <<<<"D", "0", "2">>, "London System">>,
    <<<<"D", "0", "6">>, "Queen's Gambit">>,
    <<<<"D", "1", "0">>, "Slav Defense">>,
    <<<<"D", "1", "1">>, "Slav Defense">>,
    <<<<"D", "2", "0">>, "Queen's Gambit Accepted">>,
    <<<<"D", "2", "3">>, "Queen's Gambit Accepted">>,
    <<<<"D", "3", "0">>, "Queen's Gambit Declined">>,
    <<<<"D", "3", "1">>, "Queen's Gambit Declined">>,
    <<<<"D", "3", "5">>, "Queen's Gambit Declined">>,
    <<<<"D", "3", "7">>, "Queen's Gambit Declined">>,
    <<<<"D", "5", "5">>, "Queen's Gambit Declined">>,
    <<<<"E", "0", "0">>, "Indian Defense">>,
    <<<<"E", "0", "4">>, "Catalan Opening">>,
    <<<<"E", "1", "0">>, "Indian Defense">>,
    <<<<"E", "2", "0">>, "Nimzo-Indian Defense">>,
    <<<<"E", "2", "4">>, "Nimzo-Indian Defense">>,
    <<<<"E", "6", "0">>, "King's Indian Defense">>,
    <<<<"E", "7", "0">>, "King's Indian Defense">> >>

\* eco_code in ECO_OPENINGS
InCatalog(code) == \E i \in 1..Len(ECO_OPENINGS) : ECO_OPENINGS[i][1] = code

\* ECO_OPENINGS[eco_code]
CatalogName(code) ==
    ECO_OPENINGS[CHOOSE i \in 1..Len(ECO_OPENINGS) : ECO_OPENINGS[i][1] = code][2]

\* for key, value in ECO_OPENINGS.items(): if key.startswith(prefix): return value
\* (NoReturn when the loop ends without returning)
NoReturn == "<no return>"

RECURSIVE ScanCatalog(_, _)
ScanCatalog(prefix, i) ==
    IF i > Len(ECO_OPENINGS) THEN NoReturn
    ELSE IF StartsWith(ECO_OPENINGS[i][1], prefix) THEN ECO_OPENINGS[i][2]
    ELSE ScanCatalog(prefix, i + 1)

\* for length in lengths: prefix = eco_code[:length]; scan the catalog
RECURSIVE ScanPrefixes(_, _)
ScanPrefixes(code, lengths) ==
    IF lengths = <<>> THEN "Unknown"
    ELSE LET prefix == Prefix(code, Head(lengths))
             found  == ScanCatalog(prefix, 1)
         IN  IF found # NoReturn THEN found ELSE ScanPrefixes(code, Tail(lengths))

\* The fallback with the one-character prefix tried first.
get_opening_name_short_first(code) ==
    IF code = None \/ code = <<>> THEN "Unknown"
    ELSE IF InCatalog(code) THEN CatalogName(code)
    ELSE ScanPrefixes(code, <<1, 2>>)

get_opening_name(code) ==
    IF code = None \/ code = <<>> THEN "Unknown"
    ELSE IF InCatalog(code) THEN CatalogName(code)
    ELSE ScanPrefixes(code, <<2, 1>>)

\* Longest ECO code given to get_opening_name.
MaxEcoLen == 3

EcoCharacters == {"A", "B", "E", "Z", "b", "0", "1", "2", "9"}

EcoCodes == {None} \cup SeqUpTo(EcoCharacters, MaxEcoLen)

OpeningInit ==
    /\ pc = "call"
    /\ eco_code \in EcoCodes
    /\ folder = "" /\ username = <<>> /\ termination = None
    /\ move_count = 0
    /\ ParseIdle /\ GameIdle /\ FetchIdle

\* main: "OpeningName": get_opening_name(headers.get("ECO"))
ResolveOpening ==
    /\ pc = "call"
    /\ OpeningName' = get_opening_name(eco_code)
    /\ pc' = "done"
    /\ UNCHANGED <<parseVars, move_count, inputVars, fetchVars, ColorPlayed,
                   RatingDiff, GameLength, LossQuality, TerminationType>>

OpeningNext == ResolveOpening

SpecOpening == OpeningInit /\ [][OpeningNext]_vars

\* The catalog positions whose key begins with the first n characters of code.
Sharing(code, n) ==
    {i \in 1..Len(ECO_OPENINGS) :
        /\ Len(ECO_OPENINGS[i][1]) >= Len(Prefix(code, n))
        /\ \A k \in 1..Len(Prefix(code, n)) : ECO_OPENINGS[i][1][k] = code[k]}

Earliest(S) == CHOOSE i \in S : \A j \in S : i <= j

\* C6: get_opening_name returns "Unknown" for an empty or absent code, the
\* catalog name for an exact key, otherwise the name of the first entry in
\* insertion order whose key starts with the code's first two characters, failing
\* that the first whose key starts with its first character, and "Unknown" only
\* when no key shares the first character; "B10" gives "Caro-Kann Defense", "B99"
\* "Sicilian: Najdorf", "Z99" "Unknown".
C6_OpeningName ==
    pc = "done" =>
        /\ OpeningName # Unset
        /\ (eco_code \in {None, <<>>} => OpeningName = "Unknown")
        /\ (eco_code \notin {None, <<>>} =>
              /\ (\E i \in 1..Len(ECO_OPENINGS) : ECO_OPENINGS[i][1] = eco_code) =>
                    (\E i \in 1..Len(ECO_OPENINGS) :
                        ECO_OPENINGS[i] = <<eco_code, OpeningName>>)
              /\ (~\E i \in 1..Len(ECO_OPENINGS) : ECO_OPENINGS[i][1] = eco_code) =>
                    OpeningName =
                        IF Sharing(eco_code, 2) # {}
                        THEN ECO_OPENINGS[Earliest(Sharing(eco_code, 2))][2]
                        ELSE IF Sharing(eco_code, 1) # {}
                        THEN ECO_OPENINGS[Earliest(Sharing(eco_code, 1))][2]
                        ELSE "Unknown"
              /\ (OpeningName = "Unknown") <=> (Sharing(eco_code, 1) = {}))
        /\ (eco_code = <<"B", "1", "0">> => OpeningName = "Caro-Kann Defense")
        /\ (eco_code = <<"B", "9", "9">> => OpeningName = "Sicilian: Najdorf")
        /\ (eco_code = <<"Z", "9", "9">> => OpeningName = "Unknown")

C6_Witness ==
    pc = "done" /\ eco_code = <<"B", "9", "9">> /\ OpeningName = "Sicilian: Najdorf"

----------------------------------------------------------------------------
(* main: color played and rating differential *)

\* headers.get(key, default)
GetOr(h, key, default) == IF key \in DOMAIN h THEN h[key] ELSE default

\* The value of a run of decimal digits.
RECURSIVE DecimalValue(_)
DecimalValue(ds) ==
    IF ds = <<>> THEN 0
    ELSE 10 * DecimalValue(SubSeq(ds, 1, Len(ds) - 1)) + DigitValue(ds[Len(ds)])

\* int(text): surrounding whitespace is dropped, one sign is allowed, the rest
\* is digits with single underscores between them.  ok = FALSE is ValueError.
IntOf(text) ==
    LET s      == Strip(text)
        signed == s # <<>> /\ s[1] \in {"+", "-"}
        body   == IF signed THEN Tail(s) ELSE s
        valid  == /\ body # <<>>
                  /\ IsDigit(body[1]) /\ IsDigit(body[Len(body)])
                  /\ \A i \in 1..Len(body) : IsDigit(body[i]) \/ body[i] = "_"
                  /\ \A i \in 1..(Len(body) - 1) : ~(body[i] = "_" /\ body[i + 1] = "_")
        digits == SelectSeq(body, IsDigit)
        value  == DecimalValue(digits)
    IN  IF ~valid THEN [ok |-> FALSE, val |-> 0]
        ELSE [ok |-> TRUE, val |-> IF signed /\ s[1] = "-" THEN 0 - value ELSE value]

\* int(headers.get(key, 0)): int(0) is 0
EloOf(h, key) ==
    IF key \in DOMAIN h THEN IntOf(h[key]) ELSE [ok |-> TRUE, val |-> 0]

\* white_user == username.lower() selects the color
color_played(h, user) ==
    LET white_user == Lower(GetOr(h, <<"W", "h", "i", "t", "e">>, <<>>))
    IN  IF white_user = Lower(user) THEN "White" ELSE "Black"

\* The differential with each rating parsed on its own, a malformed one as 0.
rating_diff_partial(h, color) ==
    LET w == EloOf(h, <<"W", "h", "i", "t", "e", "E", "l", "o">>).val
        b == EloOf(h, <<"B", "l", "a", "c", "k", "E", "l", "o">>).val
    IN  IF color = "White" THEN b - w ELSE w - b

\* the try block: the first int() that raises ValueError ends it with 0
rating_diff(h, color) ==
    LET white_elo == EloOf(h, <<"W", "h", "i", "t", "e", "E", "l", "o">>)
        black_elo == EloOf(h, <<"B", "l", "a", "c", "k", "E", "l", "o">>)
    IN  IF ~white_elo.ok THEN 0
        ELSE IF ~black_elo.ok THEN 0
        ELSE IF color = "White" THEN black_elo.val - white_elo.val
        ELSE white_elo.val - black_elo.val

\* Longest rating text drawn from EloCharacters.
MaxEloLen == 2

EloCharacters == {"7", "-", "x"}

EloTexts ==
    {None, <<"1", "5", "0", "0">>, <<"1", "6", "0", "0">>, <<" ", "1", "5", "0", "0", " ">>, <<"+", "1", "_", "6", "0", "0">>, <<"1", "_", "_", "5">>}
        \cup SeqUpTo(EloCharacters, MaxEloLen)

WhiteNames == {None, <<>>, <<"b", "o", "b">>, <<"B", "o", "b">>, <<"a", "l", "i", "c", "e">>}
BlackNames == {None, <<"a", "l", "i", "c", "e">>}
Usernames  == {<<>>, <<"b", "o", "b">>, <<"B", "O", "B">>}

\* The dict holding the tags that are present.
Tags(w, b, we, be) ==
    LET all     == {<<<<"W", "h", "i", "t", "e">>, w>>, <<<<"B", "l", "a", "c", "k">>, b>>,
                    <<<<"W", "h", "i", "t", "e", "E", "l", "o">>, we>>, <<<<"B", "l", "a", "c", "k", "E", "l", "o">>, be>>}
        present == {p \in all : p[2] # None}
    IN  [k \in {p[1] : p \in present} |-> (CHOOSE p \in present : p[1] = k)[2]]

RatingInit ==
    /\ pc = "color"
    /\ \E w \in WhiteNames, b \in BlackNames, we \in EloTexts, be \in EloTexts :
          headers = Tags(w, b, we, be)
    /\ username \in Usernames
    /\ f = <<>> /\ lineno = 0 /\ moves_text = <<>> /\ in_moves = FALSE
    /\ folder = "" /\ eco_code = None /\ termination = None
    /\ move_count = 0
    /\ GameIdle /\ FetchIdle

\* main: color_played = "White" if white_user == username.lower() else "Black"
DetermineColor ==
    /\ pc = "color"
    /\ ColorPlayed' = color_played(headers, username)
    /\ pc' = "rating"
    /\ UNCHANGED <<parseVars, move_count, inputVars, fetchVars, RatingDiff,
                   OpeningName, GameLength, LossQuality, TerminationType>>

\* main: the try/except computing rating_diff
ComputeRatingDiff ==
    /\ pc = "rating"
    /\ RatingDiff' = rating_diff(headers, ColorPlayed)
    /\ pc' = "done"
    /\ UNCHANGED <<parseVars, move_count, inputVars, fetchVars, ColorPlayed,
                   OpeningName, GameLength, LossQuality, TerminationType>>

RatingNext == DetermineColor \/ ComputeRatingDiff

SpecRating == RatingInit /\ [][RatingNext]_vars

\* The text of a tag, an absent tag reading as the empty text.
TagText(key) == IF key \in DOMAIN headers THEN headers[key] ELSE <<>>

\* The tag is present and int() rejects it.
Malformed(key) == key \in DOMAIN headers /\ ~IntOf(headers[key]).ok

\* The rating a tag gives: 0 when absent.
Rating(key) == IF key \in DOMAIN headers THEN IntOf(headers[key]).val ELSE 0

SameIgnoringCase(a, b) ==
    Len(a) = Len(b) /\ \A i \in 1..Len(a) : LowerChar(a[i]) = LowerChar(b[i])

\* C7: the color played is "White" if the White tag (empty when absent) equals the
\* identity case-insensitively and "Black" otherwise; the rating differential is
\* the opponent's rating minus the user's own under that color, a missing WhiteElo
\* or BlackElo counting as 0, and exactly 0 if either tag is present but is not an
\* integer; White=bob, Black=alice, WhiteElo=1500, BlackElo=1600 and identity
\* "bob" give White and +100.
C7_ColorAndRating ==
    /\ pc # "color" =>
          ColorPlayed = IF SameIgnoringCase(TagText(<<"W", "h", "i", "t", "e">>), username)
                        THEN "White" ELSE "Black"
    /\ pc = "done" =>
          /\ (Malformed(<<"W", "h", "i", "t", "e", "E", "l", "o">>) \/ Malformed(<<"B", "l", "a", "c", "k", "E", "l", "o">>)) => RatingDiff = 0
          /\ ~(Malformed(<<"W", "h", "i", "t", "e", "E", "l", "o">>) \/ Malformed(<<"B", "l", "a", "c", "k", "E", "l", "o">>)) =>
                RatingDiff = IF ColorPlayed = "White"
                             THEN Rating(<<"B", "l", "a", "c", "k", "E", "l", "o">>) - Rating(<<"W", "h", "i", "t", "e", "E", "l", "o">>)
                             ELSE Rating(<<"W", "h", "i", "t", "e", "E", "l", "o">>) - Rating(<<"B", "l", "a", "c", "k", "E", "l", "o">>)
          /\ (/\ headers = Tags(<<"b", "o", "b">>, <<"a", "l", "i", "c", "e">>, <<"1", "5", "0", "0">>, <<"1", "6", "0", "0">>)
              /\ username = <<"b", "o", "b">>)
                => (ColorPlayed = "White" /\ RatingDiff = 100)

C7_Witness ==
    /\ pc = "done"
    /\ headers = Tags(<<"B", "o", "b">>, <<"a", "l", "i", "c", "e">>, <<"7">>, <<"x">>)
    /\ username = <<"b", "o", "b">>
    /\ ColorPlayed = "White"
    /\ RatingDiff = 0

----------------------------------------------------------------------------
(* parse_pgn *)

\* The character at position i, "" past either end.
At(s, i) == IF 1 <= i /\ i <= Len(s) THEN s[i] ELSE ""

\* The length of the longest run of \w, \s, \d characters starting at p.
WordRun(s, p) ==
    CHOOSE n \in 0..Len(s) :
        /\ \A i \in p..(p + n - 1) : At(s, i) # "" /\ IsWord(s[i])
        /\ ~(At(s, p + n) # "" /\ IsWord(At(s, p + n)))

SpaceRun(s, p) ==
    CHOOSE n \in 0..Len(s) :
        /\ \A i \in p..(p + n - 1) : At(s, i) # "" /\ IsSpace(s[i])
        /\ ~(At(s, p + n) # "" /\ IsSpace(At(s, p + n)))

DigitRun(s, p) ==
    CHOOSE n \in 0..Len(s) :
        /\ \A i \in p..(p + n - 1) : At(s, i) # "" /\ IsDigit(s[i])
        /\ ~(At(s, p + n) # "" /\ IsDigit(At(s, p + n)))

\* match is None
NoMatch == [ok |-> FALSE, key |-> <<>>, value |-> <<>>]

\* (.*)"\] with the group starting at start: the greedy .* first takes len
\* characters and gives them back one at a time.
RECURSIVE TryValue(_, _, _, _)
TryValue(s, key, start, len) ==
    IF len < 0 THEN NoMatch
    ELSE IF At(s, start + len) = "\"" /\ At(s, start + len + 1) = "]"
    THEN [ok |-> TRUE, key |-> key, value |-> SubSeq(s, start, start + len - 1)]
    ELSE TryValue(s, key, start, len - 1)

\* \s+"(.*)"\] with the whitespace starting at p: \s+ first takes m characters.
RECURSIVE TrySpaces(_, _, _, _)
TrySpaces(s, key, p, m) ==
    IF m < 1 THEN NoMatch
    ELSE LET rest == IF At(s, p + m) = "\""
                     THEN TryValue(s, key, p + m + 1, Len(s) - (p + m))
                     ELSE NoMatch
         IN  IF rest.ok THEN rest ELSE TrySpaces(s, key, p, m - 1)

\* (\w+)\s+"(.*)"\] with the key starting at 2: \w+ first takes n characters.
RECURSIVE TryKey(_, _)
TryKey(s, n) ==
    IF n < 1 THEN NoMatch
    ELSE LET rest == TrySpaces(s, SubSeq(s, 2, n + 1), n + 2, SpaceRun(s, n + 2))
         IN  IF rest.ok THEN rest ELSE TryKey(s, n - 1)

\* The pattern anchored at both ends with a value that holds no double quote:
\* \[(\w+)\s+"([^"]*)"\]$
TagMatchStrict(s) ==
    LET n == WordRun(s, 2)
        m == SpaceRun(s, n + 2)
        v == n + m + 3
    IN  IF /\ At(s, 1) = "[" /\ n >= 1 /\ m >= 1 /\ At(s, n + m + 2) = "\""
           /\ Len(s) >= v + 1
           /\ s[Len(s) - 1] = "\"" /\ s[Len(s)] = "]"
           /\ \A i \in v..(Len(s) - 2) : s[i] # "\""
        THEN [ok |-> TRUE, key |-> SubSeq(s, 2, n + 1), value |-> SubSeq(s, v, Len(s) - 2)]
        ELSE NoMatch

\* re.match(r'\[(\w+)\s+"(.*)"\]', line): anchored at the start of the line only
TagMatch(s) == IF At(s, 1) # "[" THEN NoMatch ELSE TryKey(s, WordRun(s, 2))

\* headers[key] = value
Put(h, key, value) == [k \in DOMAIN h \cup {key} |-> IF k = key THEN value ELSE h[k]]

\* (\d+)\.\s tried at position p: \d+ first takes n digits.
RECURSIVE TryMarker(_, _, _)
TryMarker(s, p, n) ==
    IF n < 1 THEN 0
    ELSE IF At(s, p + n) = "." /\ At(s, p + n + 1) # "" /\ IsSpace(At(s, p + n + 1))
    THEN n
    ELSE TryMarker(s, p, n - 1)

\* re.findall(r'(\d+)\.\s', s) from position p on: the groups of the
\* non-overlapping matches, leftmost first.
RECURSIVE FindAll(_, _)
FindAll(s, p) ==
    IF p > Len(s) THEN <<>>
    ELSE LET n == TryMarker(s, p, DigitRun(s, p))
         IN  IF n >= 1
             THEN <<SubSeq(s, p, p + n - 1)>> \o FindAll(s, p + n + 2)
             ELSE FindAll(s, p + 1)

\* The count taken from the first marker, not the last.
count_moves_first(text) ==
    LET move_numbers == FindAll(text, 1)
    IN  IF move_numbers # <<>> THEN IntOf(move_numbers[1]).val ELSE 0

\* move_count = int(move_numbers[-1]) if move_numbers else 0
count_moves(text) ==
    LET move_numbers == FindAll(text, 1)
    IN  IF move_numbers # <<>> THEN IntOf(move_numbers[Len(move_numbers)]).val ELSE 0

\* line.startswith("[") and line.endswith("]")
Bracketed(line) == StartsWith(line, <<"[">>) /\ EndsWith(line, <<"]">>)

\* The chain with the movetext test ahead of the bracket test.
BranchMovesFirst(line, im) ==
    IF line = <<>> THEN "blank"
    ELSE IF im THEN "moves"
    ELSE IF Bracketed(line) THEN "tag"
    ELSE "other"

\* The if / elif / elif chain of the loop body: which branch a line takes.
Branch(line, im) ==
    IF Bracketed(line) THEN "tag"
    ELSE IF line = <<>> THEN "blank"
    ELSE IF im THEN "moves"
    ELSE "other"

\* A blank line starting the movetext phase whether or not a tag was recorded.
StartsMovesAlways(h, im) == TRUE

\* if headers: in_moves = True
StartsMoves(h, im) == IF h # EmptyDict THEN TRUE ELSE im

\* Most lines in a file built from FileLines.
MaxLines == 4

\* Longest text between the brackets of a generated one-line file.
MaxBody == 6

\* Lines as they stand in a file, before strip().
FileLines == {
    <<"[", "W", "h", "i", "t", "e", " ", "\"", "b", "o", "b", "\"", "]">>,
    <<" ", " ", "[", "W", "h", "i", "t", "e", " ", "\"", "a", "l", "\"", "]", " ", " ">>,
    <<"[", "B", " ", "\"", "c", "\"", "]", " ", "4", ".", " ", "a", "4">>,
    <<"[", "A", " ", "\"", "b", "\"", "]", " ", "9", ".", " ", "c", "]">>,
    <<>>,
    <<" ", " ">>,
    <<"1", ".", " ", "e", "4", " ", "e", "5", " ", "2", ".", " ", "N", "f", "3">>,
    <<"1", "2", ".", " ", "Q", "h", "5", " ", "7", ".", " ", "a", "3">>,
    <<"N", "c", "6", " ", "3", ".">> }

BodyCharacters == {"a", " ", "\"", "]"}

\* The files read: every file of at most MaxLines of FileLines, and every
\* one-line file holding a bracketed line with at most MaxBody characters of
\* BodyCharacters between the brackets.
Files ==
    SeqUpTo(FileLines, MaxLines)
        \cup {<< <<"[">> \o body \o <<"]">> >> : body \in SeqUpTo(BodyCharacters, MaxBody)}

ParseInit ==
    /\ pc = "loop"
    /\ f \in Files
    /\ lineno = 0
    /\ headers = EmptyDict
    /\ moves_text = <<>>
    /\ in_moves = FALSE
    /\ move_count = 0
    /\ folder = "" /\ username = <<>> /\ eco_code = None /\ termination = None
    /\ GameIdle /\ FetchIdle

\* for line in f: line = line.strip()
CurrentLine == Strip(f[lineno + 1])

MoreLines == pc = "loop" /\ lineno < Len(f)

\* if line.startswith("[") and line.endswith("]"): record the tag if it matches
ReadTagLine ==
    /\ MoreLines
    /\ Branch(CurrentLine, in_moves) = "tag"
    /\ LET match == TagMatch(CurrentLine)
       IN  headers' = IF match.ok THEN Put(headers, match.key, match.value)
                      ELSE headers
    /\ lineno' = lineno + 1
    /\ UNCHANGED <<pc, f, moves_text, in_moves, move_count, inputVars, gameVars,
                   fetchVars>>

\* elif line == "": if headers: in_moves = True
ReadBlankLine ==
    /\ MoreLines
    /\ Branch(CurrentLine, in_moves) = "blank"
    /\ in_moves' = StartsMoves(headers, in_moves)
    /\ lineno' = lineno + 1
    /\ UNCHANGED <<pc, f, headers, moves_text, move_count, inputVars, gameVars,
                   fetchVars>>

\* elif in_moves: moves_text += " " + line
ReadMoveLine ==
    /\ MoreLines
    /\ Branch(CurrentLine, in_moves) = "moves"
    /\ moves_text' = moves_text \o <<" ">> \o CurrentLine
    /\ lineno' = lineno + 1
    /\ UNCHANGED <<pc, f, headers, in_moves, move_count, inputVars, gameVars,
                   fetchVars>>

\* a line no branch takes: text before the movetext phase
ReadOtherLine ==
    /\ MoreLines
    /\ Branch(CurrentLine, in_moves) = "other"
    /\ lineno' = lineno + 1
    /\ UNCHANGED <<pc, f, headers, moves_text, in_moves, move_count, inputVars,
                   gameVars, fetchVars>>

\* after the loop: move_numbers, move_count, return headers, move_count
CountMoves ==
    /\ pc = "loop"
    /\ lineno = Len(f)
    /\ move_count' = count_moves(moves_text)
    /\ pc' = "done"
    /\ UNCHANGED <<parseVars, inputVars, gameVars, fetchVars>>

ParseNext ==
    \/ ReadTagLine
    \/ ReadBlankLine
    \/ ReadMoveLine
    \/ ReadOtherLine
    \/ CountMoves

SpecParse == ParseInit /\ [][ParseNext]_vars

\* The positions n, m with: "[", n word characters, m whitespace characters, a
\* double quote.
TagOpenings(line) ==
    IF At(line, 1) # "[" THEN {}
    ELSE LET keys == {n \in 1..Len(line) :
                         \A i \in 2..(n + 1) : At(line, i) # "" /\ IsWord(line[i])}
             gaps(n) == {m \in 1..Len(line) :
                            /\ \A i \in (n + 2)..(n + m + 1) :
                                  At(line, i) # "" /\ IsSpace(line[i])
                            /\ At(line, n + m + 2) = "\""}
         IN  UNION {{<<n, m>> : m \in gaps(n)} : n \in keys}

\* The positions, after the opening quote at q, of a double quote followed by "]".
TagClosings(line, q) ==
    {e \in (q + 1)..Len(line) : line[e] = "\"" /\ At(line, e + 1) = "]"}

\* The line begins with: "[", a key of word characters, whitespace, a double
\* quote, any characters, a double quote, "]".
HasTagShape(line) ==
    \E nm \in TagOpenings(line) : TagClosings(line, nm[1] + nm[2] + 2) # {}

\* The key of such a line, and its value: the text between the opening quote and
\* the last double quote that is followed by "]".
ShapeKey(line) ==
    LET nm == CHOOSE nm \in TagOpenings(line) : TagClosings(line, nm[1] + nm[2] + 2) # {}
    IN  SubSeq(line, 2, nm[1] + 1)

ShapeValue(line) ==
    LET nm == CHOOSE nm \in TagOpenings(line) : TagClosings(line, nm[1] + nm[2] + 2) # {}
        q  == nm[1] + nm[2] + 2
        e  == CHOOSE e \in TagClosings(line, q) : \A d \in TagClosings(line, q) : d <= e
    IN  SubSeq(line, q + 1, e - 1)

\* The whole line is: "[", key, whitespace, a quoted value holding no double
\* quote, "]".
HasStrictTagShape(line) ==
    \E nm \in TagOpenings(line) :
        LET q == nm[1] + nm[2] + 2
        IN  /\ Len(line) - 1 \in TagClosings(line, q)
            /\ \A i \in (q + 1)..(Len(line) - 2) : line[i] # "\""

\* A line that records a tag.
RecordsTag(line) == Bracketed(line) /\ HasTagShape(line)

\* C3 (as stated): a line records a tag if and only if, trimmed, it begins with
\* "[", ends with "]" and is exactly "[", word characters, whitespace, a quoted
\* value holding no double quote, "]"; every other line leaves the tags unchanged.
C3_Original ==
    [][MoreLines =>
          headers' = IF Bracketed(CurrentLine) /\ HasStrictTagShape(CurrentLine)
                     THEN Put(headers, ShapeKey(CurrentLine), ShapeValue(CurrentLine))
                     ELSE headers]_vars

\* C3 (amended): a line records a tag if and only if, trimmed, it begins with "["
\* and ends with "]" and begins with "[", word characters, whitespace, a double
\* quote, any characters (double quotes included), a double quote, "]"; the value
\* runs to the last double quote followed by "]", and text may follow that "]".
\* Every other line, one missing its closing quote for example, leaves the tags
\* unchanged.
C3_TagRecorded ==
    [][MoreLines =>
          headers' = IF RecordsTag(CurrentLine)
                     THEN Put(headers, ShapeKey(CurrentLine), ShapeValue(CurrentLine))
                     ELSE headers]_vars

C3_Witness ==
    /\ pc = "done"
    /\ f = << <<"[", "a", " ", "\"", "\"", "\"", "]">> >>
    /\ headers = [k \in {<<"a">>} |-> <<"\"">>]

\* C2 (as stated): blank lines before any tag change nothing; the first blank line
\* after a tag starts the movetext phase; from then on every non-blank line,
\* bracketed lines included, is appended, space-joined, in line order.
C2_Original ==
    [][MoreLines =>
          /\ (CurrentLine = <<>> /\ headers = EmptyDict) =>
                UNCHANGED <<headers, moves_text, in_moves>>
          /\ (CurrentLine = <<>> /\ headers # EmptyDict) =>
                in_moves' /\ UNCHANGED <<headers, moves_text>>
          /\ (~in_moves /\ in_moves') => (CurrentLine = <<>> /\ headers # EmptyDict)
          /\ ~in_moves => moves_text' = <<>>
          /\ (in_moves /\ CurrentLine # <<>>) =>
                in_moves' /\ moves_text' = moves_text \o <<" ">> \o CurrentLine]_vars

\* C2 (amended): blank lines before any tag change nothing; the first blank line
\* after a tag starts the movetext phase; from then on every non-blank line that
\* does not both begin with "[" and end with "]" is appended, preceded by a space,
\* in line order; a line that begins with "[" and ends with "]" is still read as
\* a tag line and is not appended.
C2_Movetext ==
    [][MoreLines =>
          /\ (CurrentLine = <<>> /\ headers = EmptyDict) =>
                UNCHANGED <<headers, moves_text, in_moves>>
          /\ (CurrentLine = <<>> /\ headers # EmptyDict) =>
                in_moves' /\ UNCHANGED <<headers, moves_text>>
          /\ (~in_moves /\ in_moves') => (CurrentLine = <<>> /\ headers # EmptyDict)
          /\ ~in_moves => moves_text' = <<>>
          /\ (in_moves /\ CurrentLine # <<>> /\ ~Bracketed(CurrentLine)) =>
                in_moves' /\ moves_text' = moves_text \o <<" ">> \o CurrentLine
          /\ (in_moves /\ Bracketed(CurrentLine)) =>
                in_moves' /\ moves_text' = moves_text]_vars

C2_Witness ==
    /\ pc = "done"
    /\ f = << <<"[", "W", "h", "i", "t", "e", " ", "\"", "b", "o", "b", "\"", "]">>, <<>>, <<"[", "A", " ", "\"", "b", "\"", "]", " ", "9", ".", " ", "c", "]">>, <<"1", ".", " ", "e", "4", " ", "e", "5", " ", "2", ".", " ", "N", "f", "3">> >>
    /\ moves_text = <<" ", "1", ".", " ", "e", "4", " ", "e", "5", " ", "2", ".", " ", "N", "f", "3">>
    /\ move_count = 2

\* No line of the file records a tag.
NoTag == \A i \in 1..Len(f) : ~RecordsTag(Strip(f[i]))

\* No line of the file is movetext: non-blank, not bracketed, and after a blank
\* line that follows a tag.
NoMovetext ==
    ~\E k \in 1..Len(f) :
        /\ RecordsTag(Strip(f[k]))
        /\ \E j \in (k + 1)..Len(f) :
              /\ Strip(f[j]) = <<>>
              /\ \E i \in (j + 1)..Len(f) :
                    Strip(f[i]) # <<>> /\ ~Bracketed(Strip(f[i]))

\* C4 (as stated): a file with no tag or with no movetext gives an empty tag
\* mapping and a move count of zero.
C4_Original ==
    pc = "done" => ((NoTag \/ NoMovetext) => (headers = EmptyDict /\ move_count = 0))

\* C4 (amended): a file with no tag gives an empty tag mapping and a move count of
\* zero; a file with tags and no movetext gives a move count of zero and the
\* mapping of the tags it holds.
C4_EmptyResult ==
    pc = "done" =>
        /\ NoTag => (headers = EmptyDict /\ move_count = 0)
        /\ NoMovetext => move_count = 0
        /\ ~NoTag => headers # EmptyDict

C4_Witness ==
    /\ pc = "done"
    /\ f = << <<"[", "W", "h", "i", "t", "e", " ", "\"", "b", "o", "b", "\"", "]">>, <<>> >>
    /\ headers = [k \in {<<"W", "h", "i", "t", "e">>} |-> <<"b", "o", "b">>]
    /\ move_count = 0

\* The positions where a move-number marker starts: a maximal run of digits
\* followed by a period and a whitespace character.
RunEnd(s, p) ==
    CHOOSE q \in p..Len(s) :
        (\A i \in p..q : IsDigit(s[i])) /\ ~(q < Len(s) /\ IsDigit(s[q + 1]))

MarkerStarts(s) ==
    {p \in 1..Len(s) :
        /\ IsDigit(s[p])
        /\ ~(p > 1 /\ IsDigit(s[p - 1]))
        /\ At(s, RunEnd(s, p) + 1) = "."
        /\ At(s, RunEnd(s, p) + 2) \in {" ", "\t"}}

MarkerValue(s, p) == DecimalValue(SubSeq(s, p, RunEnd(s, p)))

\* C5: the move count is the value of the last move-number marker of the
\* movetext buffer (not the largest, not their number), zero when there is none,
\* and never negative.
C5_MoveCount ==
    /\ move_count >= 0
    /\ pc = "done" =>
          LET starts == MarkerStarts(moves_text)
          IN  IF starts = {} THEN move_count = 0
              ELSE move_count =
                     MarkerValue(moves_text,
                                 CHOOSE p \in starts : \A r \in starts : r <= p)

C5_Witness ==
    /\ pc = "done"
    /\ moves_text = <<" ", "1", "2", ".", " ", "Q", "h", "5", " ", "7", ".", " ", "a", "3">>
    /\ move_count = 7

----------------------------------------------------------------------------
(* fetch_chess_games.py: main *)

\* Most archive urls get_archives returns.
MaxArchives == 2

\* Most games one archive holds.
MaxGames == 2

\* Largest --count.
MaxTarget == 2

\* A game of an archive: game.get("time_class"), game.get("pgn") (None when
\* absent) and game.get("end_time", 0).  The pgn of a game that is not rapid is
\* never read, so one value stands for it.
Games ==
    [time_class : {"rapid"}, pgn : {None, <<>>, <<"1", ".", " ", "e", "4", " ", "e", "5">>}, end_time : {0, 1}]
        \cup [time_class : {"blitz"}, pgn : {<<"1", ".", " ", "e", "4", " ", "e", "5">>}, end_time : {0, 1}]

\* What get_games_from_archive returns: the games of the archive, or [] after an
\* exception.
Responses == SeqUpTo(Games, MaxGames)

\* The list with g put after the last game whose end_time is at least g's.
RECURSIVE InsertDescending(_, _)
InsertDescending(sorted, g) ==
    IF sorted = <<>> THEN <<g>>
    ELSE IF Head(sorted).end_time >= g.end_time
    THEN <<Head(sorted)>> \o InsertDescending(Tail(sorted), g)
    ELSE <<g>> \o sorted

RECURSIVE SortDescendingFrom(_, _)
SortDescendingFrom(sorted, rest) ==
    IF rest = <<>> THEN sorted
    ELSE SortDescendingFrom(InsertDescending(sorted, Head(rest)), Tail(rest))

\* games.sort(key=lambda x: x.get("end_time", 0), reverse=True): stable
SortByEndTime(gs) == SortDescendingFrom(<<>>, gs)

\* The break test with > for >=.
TargetReachedLate(c, t) == c > t

\* if count >= target_count: break
TargetReached(c, t) == c >= t

\* save_game: the pgn is written, and True returned, when it is not empty
save_game(game) == game.pgn # None /\ game.pgn # <<>>

FetchInit ==
    /\ pc = "archives"
    /\ archives \in 0..MaxArchives
    /\ target_count \in (0 - 1)..MaxTarget
    /\ count = 0
    /\ visited = <<>>
    /\ games = <<>>
    /\ game_pos = 0
    /\ written = <<>>
    /\ move_count = 0
    /\ ParseIdle /\ InputIdle /\ GameIdle

\* for archive_url in reversed(archives): games = get_games_from_archive(...);
\* games.sort(...)
FetchArchive ==
    /\ pc = "archives"
    /\ Len(visited) < archives
    /\ ~TargetReached(count, target_count)
    /\ \E response \in Responses : games' = SortByEndTime(response)
    /\ visited' = Append(visited, archives - Len(visited))
    /\ game_pos' = 0
    /\ pc' = "games"
    /\ UNCHANGED <<archives, target_count, count, written, parseVars, move_count,
                   inputVars, gameVars>>

\* for game in games: a rapid game whose pgn save_game writes
SaveGame ==
    /\ pc = "games"
    /\ game_pos < Len(games)
    /\ ~TargetReached(count, target_count)
    /\ games[game_pos + 1].time_class = "rapid"
    /\ save_game(games[game_pos + 1])
    /\ written' = Append(written, games[game_pos + 1])
    /\ count' = count + 1
    /\ game_pos' = game_pos + 1
    /\ UNCHANGED <<pc, archives, target_count, visited, games, parseVars,
                   move_count, inputVars, gameVars>>

\* for game in games: a game that is not rapid, or that save_game does not write
SkipGame ==
    /\ pc = "games"
    /\ game_pos < Len(games)
    /\ ~TargetReached(count, target_count)
    /\ ~(games[game_pos + 1].time_class = "rapid" /\ save_game(games[game_pos + 1]))
    /\ game_pos' = game_pos + 1
    /\ UNCHANGED <<pc, archives, target_count, count, visited, games, written,
                   parseVars, move_count, inputVars, gameVars>>

\* the inner loop ends: no game left, or break
EndArchive ==
    /\ pc = "games"
    /\ game_pos = Len(games) \/ TargetReached(count, target_count)
    /\ pc' = "archives"
    /\ UNCHANGED <<archives, target_count, count, visited, games, game_pos,
                   written, parseVars, move_count, inputVars, gameVars>>

\* the outer loop ends: no archive left, or break
Done ==
    /\ pc = "archives"
    /\ Len(visited) = archives \/ TargetReached(count, target_count)
    /\ pc' = "done"
    /\ UNCHANGED <<archives, target_count, count, visited, games, game_pos,
                   written, parseVars, move_count, inputVars, gameVars>>

FetchNext == FetchArchive \/ SaveGame \/ SkipGame \/ EndArchive \/ Done

\* The program runs on until main returns.
SpecFetch == FetchInit /\ [][FetchNext]_vars /\ WF_vars(FetchNext)

\* How deep in the loops of main the program is.
LoopDepth == IF pc = "games" THEN 2 ELSE IF pc = "archives" THEN 1 ELSE 0

\* C10: with a target count N >= 0, the counter starts at 0, goes up by exactly
\* one and only when a rapid game with a non-empty pgn has been written, never
\* exceeds N, and once it equals N no archive is fetched and no game saved;
\* archives are visited in reverse list order, the games of an archive in
\* descending end_time order, and the loop terminates: until main returns a step
\* is always possible, and every step lowers, in lexicographic order, the triple
\* (archives left, position in the loops, games left in the current archive).
C10_Download ==
    /\ count = 0
    /\ [](target_count >= 0 => count <= target_count)
    /\ [](count = Len(written))
    /\ [][count' # count =>
            /\ count' = count + 1
            /\ pc = "games"
            /\ games[game_pos + 1].time_class = "rapid"
            /\ games[game_pos + 1].pgn \notin {None, <<>>}
            /\ written' = Append(written, games[game_pos + 1])]_vars
    /\ [][(target_count >= 0 /\ count = target_count) =>
            (visited' = visited /\ written' = written /\ count' = count)]_vars
    /\ [](\A i \in 1..Len(visited) : visited[i] = archives - i + 1)
    /\ [](\A i, j \in 1..Len(games) : i < j => games[i].end_time >= games[j].end_time)
    /\ [][game_pos' # game_pos => game_pos' = IF pc = "archives" THEN 0 ELSE game_pos + 1]_vars
    /\ [](pc # "done" => ENABLED FetchNext)
    /\ [][\/ archives' - Len(visited') < archives - Len(visited)
          \/ /\ archives' - Len(visited') = archives - Len(visited)
             /\ LoopDepth' < LoopDepth
          \/ /\ archives' - Len(visited') = archives - Len(visited)
             /\ LoopDepth' = LoopDepth
             /\ Len(games') - game_pos' < Len(games) - game_pos]_vars
    /\ [](archives - Len(visited) >= 0 /\ Len(games) - game_pos >= 0)

C10_Witness ==
    /\ pc = "done"
    /\ archives = 2
    /\ target_count = 2
    /\ count = 2
    /\ visited = <<2>>
    /\ Len(written) = 2
    /\ written[1].end_time > written[2].end_time

====
